---- MODULE Spec2Model ----
(***************************************************************************)
(* Model of the RAG + SQL routing assistant:                               *)
(*   - the Safety Checker is_readonly_sql and the SQL tools                *)
(*     (src/agent_app/tools/sql.py),                                       *)
(*   - the graph nodes (src/agent_app/graph/nodes.py),                     *)
(*   - the orchestration graph (src/agent_app/graph/graph.py),             *)
(*   - the chat surface (src/ui.py).                                       *)
(* Text that the code inspects character by character (SQL statements,     *)
(* the Router's intent) is a sequence of one-character strings.            *)
(***************************************************************************)
EXTENDS Integers, Sequences, FiniteSets, TLC

VARIABLES
    stmt,       \* the statement handed to is_readonly_sql (safety harness)
    verdict,    \* what is_readonly_sql returned for stmt, once it has been called
    session,    \* st.session_state.messages: sequence of [role, content]
    shown,      \* per chat input, what its assistant placeholder shows
    turn,       \* number of chat inputs handled or in progress
    phase,      \* graph.invoke: "idle", "running", "done" (returned), "failed" (raised)
    exc,        \* the exception graph.invoke raised, "none" if it raised none
    gstate,     \* the AgentState channels that hold a value (a dict)
    pending,    \* nodes of the current superstep that have not finished
    writes,     \* updates returned by the finished nodes of the current superstep
    runs,       \* per node: how many times it was started in this invocation
    routed,     \* what the Router's classification call produced in this invocation
    agent,      \* the ReAct loop inside sql_gen_node
    lastCall,   \* the last tool invocation of the agent loop and its outcome
    synth       \* the input text response_node sent to the model in this invocation

vars == <<stmt, verdict, session, shown, turn, phase, exc, gstate, pending, writes,
          runs, routed, agent, lastCall, synth>>

safetyVars == <<stmt, verdict>>
uiVars == <<session, shown, turn>>
appVars == <<session, shown, turn, phase, exc, gstate, pending, writes, runs, routed,
             agent, lastCall, synth>>

(***************************************************************************)
(* Bounds of the model.                                                    *)
(***************************************************************************)
MaxPieces == 3      \* pieces a generated statement is made of
MaxTurns == 2       \* chat inputs per behaviour
MaxRounds == 2      \* tool-call rounds one run of the agent loop may take (see StepLimitReached)

(***************************************************************************)
(* Characters and text.                                                    *)
(***************************************************************************)
LowerLetters == <<"a","b","c","d","e","f","g","h","i","j","k","l","m",
                  "n","o","p","q","r","s","t","u","v","w","x","y","z">>
UpperLetters == <<"A","B","C","D","E","F","G","H","I","J","K","L","M",
                  "N","O","P","Q","R","S","T","U","V","W","X","Y","Z">>

\* str.upper() on one character
UpperChar(c) ==
    IF \E i \in 1..26 : LowerLetters[i] = c
    THEN UpperLetters[CHOOSE i \in 1..26 : LowerLetters[i] = c]
    ELSE c

\* str.lower() on one character (used to generate inputs in other letter cases)
LowerChar(c) ==
    IF \E i \in 1..26 : UpperLetters[i] = c
    THEN LowerLetters[CHOOSE i \in 1..26 : UpperLetters[i] = c]
    ELSE c

Upper(s) == [i \in 1..Len(s) |-> UpperChar(s[i])]
Lower(s) == [i \in 1..Len(s) |-> LowerChar(s[i])]
\* alternating case: dRoP
Mixed(s) == [i \in 1..Len(s) |-> IF i % 2 = 0 THEN UpperChar(s[i]) ELSE LowerChar(s[i])]

\* what str.strip() removes and what \s matches
Whitespace == {" ", "\t", "\n", "\r", "\f"}

RECURSIVE LStrip(_)
LStrip(s) == IF s # <<>> /\ Head(s) \in Whitespace THEN LStrip(Tail(s)) ELSE s

RECURSIVE RStrip(_)
RStrip(s) ==
    IF s # <<>> /\ s[Len(s)] \in Whitespace THEN RStrip(SubSeq(s, 1, Len(s) - 1)) ELSE s

Strip(s) == RStrip(LStrip(s))

RECURSIVE Concat(_)
Concat(ss) == IF ss = <<>> THEN <<>> ELSE Head(ss) \o Concat(Tail(ss))

(***************************************************************************)
(* Safety Checker: is_readonly_sql.                                        *)
(***************************************************************************)
forbidden == <<
    <<"I","N","S","E","R","T">>,
    <<"U","P","D","A","T","E">>,
    <<"D","E","L","E","T","E">>,
    <<"D","R","O","P">>,
    <<"A","L","T","E","R">>,
    <<"T","R","U","N","C","A","T","E">>,
    <<"C","R","E","A","T","E">>,
    <<"G","R","A","N","T">>,
    <<"R","E","V","O","K","E">>,
    <<"E","X","E","C">>,
    <<"E","X","E","C","U","T","E">> >>

\* the character class [\s;] of the pattern
PatternSep == Whitespace \cup {";"}

\* mutant: the word is recognised at the start of the statement only
SearchAtStartOnly(word, s) ==
    /\ Len(s) >= Len(word)
    /\ SubSeq(s, 1, Len(word)) = word
    /\ (Len(word) = Len(s) \/ s[Len(word) + 1] \in PatternSep)

\* mutant: the word is searched as a plain substring, without its boundaries
SearchSubstring(word, s) ==
    \E i \in 1..(Len(s) - Len(word) + 1) : SubSeq(s, i, i + Len(word) - 1) = word

\* re.search(r'(^|[\s;])' + word + r'([\s;]|$)', s)
Search(word, s) ==
    \E i \in 1..(Len(s) - Len(word) + 1) :
        /\ (i = 1 \/ s[i - 1] \in PatternSep)
        /\ SubSeq(s, i, i + Len(word) - 1) = word
        /\ (i + Len(word) - 1 = Len(s) \/ s[i + Len(word)] \in PatternSep)

is_readonly_sql(sql) ==
    LET sql_upper == Strip(Upper(sql))
    IN  ~ \E w \in 1..Len(forbidden) : Search(forbidden[w], sql_upper)

(***************************************************************************)
(* Statements handed to the Safety Checker: up to MaxPieces pieces, each   *)
(* glue or the chosen forbidden verb in the chosen letter case.            *)
(***************************************************************************)
Glue == { <<" ">>, <<";">>, <<"\n">>, <<"s">>, <<"(">> }
VerbSlot == <<"#">>
LetterCases == {"upper", "lower", "mixed"}

InCase(word, form) ==
    CASE form = "upper" -> Upper(word)
      [] form = "lower" -> Lower(word)
      [] form = "mixed" -> Mixed(word)

PieceSeqs == UNION { [1..n -> Glue \cup {VerbSlot}] : n \in 0..MaxPieces }

Render(pieces, word) ==
    Concat([i \in 1..Len(pieces) |-> IF pieces[i] = VerbSlot THEN word ELSE pieces[i]])

Statements ==
    { Render(ps, InCase(forbidden[w], form)) :
        ps \in PieceSeqs, w \in 1..Len(forbidden), form \in LetterCases }

(***************************************************************************)
(* State of the application before the first chat input.                   *)
(***************************************************************************)
Nodes == {"router", "rag", "sql_gen", "response"}

NoCall == [tool |-> "none", args |-> <<>>, raised |-> FALSE, text |-> "",
           submitted |-> <<>>, obs |-> ""]
NoOutcome == [called |-> FALSE]
IdleAgent == [rounds |-> 0]

AppInit ==
    /\ session = <<>>
    /\ shown = <<>>
    /\ turn = 0
    /\ phase = "idle"
    /\ exc = "none"
    /\ gstate = [messages |-> <<>>]
    /\ pending = {}
    /\ writes = {}
    /\ runs = [n \in Nodes |-> 0]
    /\ routed = NoOutcome
    /\ agent = IdleAgent
    /\ lastCall = NoCall
    /\ synth = <<>>

(***************************************************************************)
(* Safety harness: is_readonly_sql applied to every generated statement,   *)
(* through the sql_db_is_readonly tool.                                    *)
(***************************************************************************)
Unchecked == [done |-> FALSE, value |-> FALSE]

SafetyInit ==
    /\ stmt \in Statements
    /\ verdict = Unchecked
    /\ AppInit

sql_db_is_readonly ==
    /\ ~verdict.done
    /\ verdict' = [done |-> TRUE, value |-> is_readonly_sql(stmt)]
    /\ UNCHANGED <<stmt, appVars>>

SafetyNext == sql_db_is_readonly

SafetySpec == SafetyInit /\ [][SafetyNext]_vars

(***************************************************************************)
(* Tokens of a statement: the maximal runs of characters between           *)
(* whitespace and ';'.                                                     *)
(***************************************************************************)
RECURSIVE Tokens(_, _)
Tokens(s, cur) ==
    IF s = <<>> THEN (IF cur = <<>> THEN {} ELSE {cur})
    ELSE IF Head(s) \in Whitespace \cup {";"}
         THEN (IF cur = <<>> THEN {} ELSE {cur}) \cup Tokens(Tail(s), <<>>)
         ELSE Tokens(Tail(s), Append(cur, Head(s)))

ForbiddenVerbs == { forbidden[w] : w \in 1..Len(forbidden) }

HasForbiddenToken(s) == \E t \in Tokens(s, <<>>) : Upper(t) \in ForbiddenVerbs

\* C1: a statement that contains a forbidden verb as a standalone token, in any
\* letter case and at any position, is reported not read-only.
C1_ForbiddenTokenRejected ==
    (verdict.done /\ HasForbiddenToken(stmt)) => verdict.value = FALSE

\* C1 witness: a lower-case forbidden verb after a ';' separator, not leading the
\* statement, has been checked and rejected.
C1_Witness ==
    /\ verdict.done
    /\ ~verdict.value
    /\ stmt = <<"s", ";", "d", "r", "o", "p">>

\* C2: a statement in which no forbidden verb is a standalone token (the verb is at
\* most part of a longer identifier) is reported read-only.
C2_NoForbiddenTokenAccepted ==
    (verdict.done /\ ~HasForbiddenToken(stmt)) => verdict.value = TRUE

\* C2 witness: the verb occurs only inside the longer identifier "updates", after a
\* ';', and the statement has been checked and accepted.
C2_Witness ==
    /\ verdict.done
    /\ verdict.value
    /\ stmt = <<";", "u", "p", "d", "a", "t", "e", "s">>

(***************************************************************************)
(* Dict access and the graph state.                                        *)
(***************************************************************************)
\* the value None, where the code compares it with text kept as characters
None == <<"None">>

\* state.get(key, default)
Get(d, key, default) == IF key \in DOMAIN d THEN d[key] ELSE default

HumanMessage(content) == [type |-> "human", content |-> content]
AIMessage(content) == [type |-> "ai", content |-> content]

\* the text of the chat input of turn t, and the model's answer in turn t
PromptOf(t) == <<"prompt", t>>
AnswerOf(t) == <<"answer", t>>

(***************************************************************************)
(* Router: router_node.                                                    *)
(***************************************************************************)
RAG == <<"R","A","G">>
SQL == <<"S","Q","L">>
BOTH == <<"B","O","T","H">>
OFFTOPIC == <<"O","F","F","T","O","P","I","C">>

valid_intents == <<RAG, SQL, BOTH, OFFTOPIC>>

\* intents the classification call may return: a valid value in some letter case
\* and padding, or another text
RawIntents == { RAG, <<" ","s","q","l"," ">>, <<"B","o","t","h">>, <<"o","f","f","t","o","p","i","c">>, <<"m","a","y","b","e">>, <<>> }

\* filters the classification call may return (sets of <<key, value>>)
FilterSets == { {}, {<<"department", "sales">>} }

\* router_chain.invoke: it raises, or returns a RouterOutput
RouterOutcomes ==
    { [called |-> TRUE, ok |-> FALSE, intent |-> <<>>, filters |-> {}] }
    \cup { [called |-> TRUE, ok |-> TRUE, intent |-> r, filters |-> f] :
             r \in RawIntents, f \in FilterSets }

\* mutant: the returned intent is validated as it came, without strip and upper
router_node_not_normalized(out) ==
    LET intent0 == IF out.ok THEN out.intent ELSE OFFTOPIC
        filters == IF out.ok THEN out.filters ELSE {}
        intent == IF \E i \in 1..Len(valid_intents) : valid_intents[i] = intent0
                  THEN intent0 ELSE OFFTOPIC
    IN  [intent |-> intent, filters |-> filters]

\* the update router_node returns for an outcome of the classification call
router_node(out) ==
    LET intent0 == IF out.ok THEN Upper(Strip(out.intent)) ELSE OFFTOPIC
        filters == IF out.ok THEN out.filters ELSE {}
        intent == IF \E i \in 1..Len(valid_intents) : valid_intents[i] = intent0
                  THEN intent0 ELSE OFFTOPIC
    IN  [intent |-> intent, filters |-> filters]

(***************************************************************************)
(* Retrieval Strategy, SQL Strategy and Response Synthesizer: what each    *)
(* node returns.                                                           *)
(***************************************************************************)
\* retrieve_documents.invoke: the texts it returns
RagTexts == { "No relevant documents found.", "Content: c\nSource: s\nMetadata: m\n" }

rag_node(context) == [rag_context |-> context]

\* the content of the agent's final message
AgentTexts == { "", "There are 3 regions." }

\* mutant: the SQL Strategy writes the key of the Retrieval Strategy
sql_gen_node_shared_key(content) == [rag_context |-> content]

sql_gen_node(content) == [sql_result |-> content]

\* mutant: both sections are written whatever the state holds
full_context_always(st) ==
    <<"Document Context:\n", Get(st, "rag_context", ""), "\n\n">>
        \o <<"Database Result:\n", Get(st, "sql_result", ""), "\n\n">>

\* full_context of response_node, as the sequence of the texts it concatenates
full_context(st) ==
    LET rag_context == Get(st, "rag_context", "")
        sql_result == Get(st, "sql_result", "")
    IN  (IF rag_context # "" THEN <<"Document Context:\n", rag_context, "\n\n">> ELSE <<>>)
        \o (IF sql_result # "" THEN <<"Database Result:\n", sql_result, "\n\n">> ELSE <<>>)

\* input_text of response_node
input_text(st) ==
    <<"Context:\n">> \o full_context(st)
        \o <<"\n\nQuestion: ", st["messages"][Len(st["messages"])].content>>

\* mutant: the answer is not appended to the conversation
response_node_no_turn(answer) == [final_answer |-> answer]

response_node(answer) == [final_answer |-> answer, messages |-> <<AIMessage(answer)>>]

(***************************************************************************)
(* Orchestration graph: build_graph, run in supersteps. The nodes of a     *)
(* superstep read the state as it was when the superstep began; their      *)
(* updates are applied together when all of them have finished.            *)
(***************************************************************************)
\* mutant: BOTH is dispatched along one path only
route_decision_one_path(st) ==
    LET intent == Get(st, "intent", None)
    IN  IF intent = RAG THEN <<"rag">>
        ELSE IF intent = SQL THEN <<"sql_gen">>
        ELSE IF intent = BOTH THEN <<"rag">>
        ELSE <<"response">>

route_decision(st) ==
    LET intent == Get(st, "intent", None)
    IN  IF intent = RAG THEN <<"rag">>
        ELSE IF intent = SQL THEN <<"sql_gen">>
        ELSE IF intent = BOTH THEN <<"rag", "sql_gen">>
        ELSE <<"response">>

\* the mapping given to add_conditional_edges
path_map == [rag |-> "rag", sql_gen |-> "sql_gen", response |-> "response"]

\* the nodes a finished node leads to; response leads to END
Successors(n, st) ==
    CASE n = "router" ->
            LET r == route_decision(st) IN { path_map[r[i]] : i \in 1..Len(r) }
      [] n = "rag" -> {"response"}
      [] n = "sql_gen" -> {"response"}
      [] n = "response" -> {}

NodeOrder == <<"router", "rag", "sql_gen", "response">>

Writers(k) == { w \in writes : k \in DOMAIN w[2] }
WrittenKeys == UNION { DOMAIN w[2] : w \in writes }

\* two updates of one key without a reducer in the same superstep
Conflict == \E k \in WrittenKeys \ {"messages"} : Cardinality(Writers(k)) > 1

\* the reducer of the messages key
add_messages(left, right) == left \o right

RECURSIVE MessagesWritten(_)
MessagesWritten(i) ==
    IF i > Len(NodeOrder) THEN <<>>
    ELSE (IF \E w \in Writers("messages") : w[1] = NodeOrder[i]
          THEN (CHOOSE w \in Writers("messages") : w[1] = NodeOrder[i])[2]["messages"]
          ELSE <<>>) \o MessagesWritten(i + 1)

ApplyWrites(st) ==
    [k \in (DOMAIN st) \cup WrittenKeys |->
        IF k \notin WrittenKeys THEN st[k]
        ELSE IF k = "messages" THEN add_messages(st[k], MessagesWritten(1))
        ELSE (CHOOSE w \in Writers(k) : TRUE)[2][k]]

\* mutant: the superstep ends as soon as one of its nodes has finished
StepCompleteEarly == writes # {}

\* the superstep is over when none of its nodes is still running
StepComplete == pending = {}

\* a node finished and returned an update
Finish(n, update) ==
    /\ pending' = pending \ {n}
    /\ writes' = writes \cup {<<n, update>>}
    /\ UNCHANGED <<phase, exc, gstate, runs>>

\* a node raised: graph.invoke raises, the updates of the superstep are dropped
Raise(e) ==
    /\ phase' = "failed"
    /\ exc' = e
    /\ pending' = {}
    /\ writes' = {}
    /\ UNCHANGED <<gstate, runs>>

Superstep ==
    /\ phase = "running"
    /\ StepComplete
    /\ IF Conflict
       THEN Raise("InvalidUpdateError")
       ELSE LET st == ApplyWrites(gstate)
                nxt == UNION { Successors(w[1], st) : w \in writes }
            IN  /\ gstate' = st
                /\ pending' = nxt
                /\ writes' = {}
                /\ runs' = [n \in Nodes |-> runs[n] + (IF n \in nxt THEN 1 ELSE 0)]
                /\ phase' = IF nxt = {} THEN "done" ELSE "running"
                /\ exc' = exc
    /\ UNCHANGED <<safetyVars, uiVars, routed, agent, lastCall, synth>>

RouterNode ==
    /\ phase = "running"
    /\ "router" \in pending
    /\ \E out \in RouterOutcomes :
        /\ routed' = out
        /\ Finish("router", router_node(out))
    /\ UNCHANGED <<safetyVars, uiVars, agent, lastCall, synth>>

RagNode ==
    /\ phase = "running"
    /\ "rag" \in pending
    /\ \/ \E context \in RagTexts : Finish("rag", rag_node(context))
       \/ Raise("retrieval failed")
    /\ UNCHANGED <<safetyVars, uiVars, routed, agent, lastCall, synth>>

ResponseNode ==
    /\ phase = "running"
    /\ "response" \in pending
    /\ synth' = input_text(gstate)
    /\ \/ Finish("response", response_node(AnswerOf(turn)))
       \/ Raise("synthesis call failed")
    /\ UNCHANGED <<safetyVars, uiVars, routed, agent, lastCall>>

(***************************************************************************)
(* SQL tools. Each returns its outcome: the text returned or the exception *)
(* raised, and the SQL texts it handed to db.run. The behaviour of the     *)
(* database during one call is db: which of its steps succeed.             *)
(***************************************************************************)
DbBehaviours == [connect : BOOLEAN, names : BOOLEAN, info : BOOLEAN, run : BOOLEAN]

Returned(text, submitted) == [raised |-> FALSE, text |-> text, submitted |-> submitted]
Raised(e, submitted) == [raised |-> TRUE, text |-> e, submitted |-> submitted]

\* db.get_table_names() of the live database
T_sales == <<"s","a","l","e","s">>
T_users == <<"u","s","e","r","s">>
all_tables == <<T_sales, T_users>>
IsTable(t) == \E i \in 1..Len(all_tables) : all_tables[i] = t

Refusal ==
    "Error: The query contains forbidden (write/modify) keywords. Execution aborted for safety."

sql_db_list_tables(db) ==
    IF ~db.connect THEN Raised("get_db: connection failed", <<>>)
    ELSE IF ~db.names THEN Raised("get_table_names failed", <<>>)
    ELSE Returned("sales, users", <<>>)

\* tables: the names parsed from the comma-separated argument
sql_db_schema(tables, db) ==
    IF ~db.connect THEN Raised("get_db: connection failed", <<>>)
    ELSE IF ~db.info \/ \E i \in 1..Len(tables) : ~IsTable(tables[i])
         THEN Returned("Error getting schema for tables: e", <<>>)
         ELSE Returned("CREATE TABLE ...", <<>>)

\* mutant: the query is executed without the read-only check
sql_db_query_unchecked(query, db) ==
    IF ~db.connect THEN Raised("get_db: connection failed", <<>>)
    ELSE IF db.run THEN Returned("[(3,)]", <<query>>)
         ELSE Returned("Error executing SQL: e", <<query>>)

sql_db_query(query, db) ==
    IF ~is_readonly_sql(query) THEN Returned(Refusal, <<>>)
    ELSE IF ~db.connect THEN Raised("get_db: connection failed", <<>>)
    ELSE IF db.run THEN Returned("[(3,)]", <<query>>)
         ELSE Returned("Error executing SQL: e", <<query>>)

\* the two tools that ask the model: the call raises or returns text
sql_db_query_checker(query, ok) ==
    IF ok THEN Returned("checked query", <<>>) ELSE Raised("model call failed", <<>>)

sql_db_is_aggregate_only(query, ok) ==
    IF ok THEN Returned("True", <<>>) ELSE Raised("model call failed", <<>>)

\* mutant: the search term is placed in the query as it came
ReplaceQuoteNone(s) == s

\* search_term.replace("'", "''")
RECURSIVE ReplaceQuote(_)
ReplaceQuote(s) ==
    IF s = <<>> THEN <<>>
    ELSE (IF Head(s) = "'" THEN <<"'", "'">> ELSE <<Head(s)>>) \o ReplaceQuote(Tail(s))

\* f"SELECT DISTINCT TOP 10 {column} FROM {table} WHERE {column} LIKE '%{safe_term}%'"
ValueQuery(table, column, safe_term) ==
    <<"S","E","L","E","C","T"," ","D","I","S","T","I","N","C","T"," ","T","O","P"," ","1","0"," ">> \o column \o <<" ","F","R","O","M"," ">> \o table \o <<" ","W","H","E","R","E"," ">> \o column \o <<" ","L","I","K","E"," ","'","%">> \o safe_term \o <<"%","'">>

sql_db_column_value_checker(table, column, search_term, db) ==
    IF ~db.connect THEN Raised("get_db: connection failed", <<>>)
    ELSE IF ~db.names THEN Raised("get_table_names failed", <<>>)
    ELSE IF ~IsTable(table) THEN Returned("Error: Table does not exist.", <<>>)
    ELSE LET safe_term == ReplaceQuote(search_term)
             query == ValueQuery(table, column, safe_term)
         IN  IF db.run THEN Returned("[('East',)]", <<query>>)
             ELSE Returned("Error checking values: e", <<query>>)

(***************************************************************************)
(* SQL Strategy: the agent loop of sql_gen_node. In each round the model   *)
(* asks for one tool with arguments of its choice, the tool runs, and its  *)
(* result is the next observation; the loop ends when the model answers    *)
(* without asking for a tool.                                              *)
(***************************************************************************)
\* arguments the model may choose
AgentQueries == { <<"S","E","L","E","C","T"," ","C","O","U","N","T","(","*",")"," ","F","R","O","M"," ","s","a","l","e","s">>,
                  <<"D","R","O","P"," ","T","A","B","L","E"," ","s","a","l","e","s">>,
                  <<"s","e","l","e","c","t"," ","1",";","d","e","l","e","t","e"," ","f","r","o","m"," ","s","a","l","e","s">> }
AgentTables == { T_sales, <<"n","o","p","e">> }
AgentColumns == { <<"r","e","g","i","o","n">>, <<"1",";","d","r","o","p"," ","t","a","b","l","e"," ","s","a","l","e","s",";","s","e","l","e","c","t"," ","r","e","g","i","o","n">> }
AgentTerms == { <<"E","a","s","t">>, <<"o","'","k">> }

NoObservation == "<no observation>"
\* the agent's tool node turns an exception of a tool into an observation
ToolErrorObservation == "Error: tool raised. Please fix your mistakes."

AgentRunning == phase = "running" /\ "sql_gen" \in pending

\* The agent graph is invoked without a configuration, so it runs under the step
\* limit of the graph engine: a run that would need a further tool round after the
\* last one the limit allows raises GraphRecursionError. Nothing in the repository
\* sets the limit; the model scales the engine's default down to MaxRounds rounds.
StepLimitReached(rounds) == rounds >= MaxRounds

\* mutant: the rounds taken are not counted
NextRoundStuck(rounds) == rounds

\* the rounds taken after one more tool round
NextRound(rounds) == rounds + 1

\* one round: the tool ran with outcome out. An exception of the tool is either
\* turned into an observation by the agent's tool node or ends the invocation,
\* depending on the tool node's error handling.
ToolRound(tool, args, out) ==
    /\ ~StepLimitReached(agent.rounds)
    /\ \E propagate \in BOOLEAN :
        /\ propagate => out.raised
        /\ lastCall' = [tool |-> tool, args |-> args, raised |-> out.raised,
                        text |-> out.text, submitted |-> out.submitted,
                        obs |-> IF ~out.raised THEN out.text
                                ELSE IF propagate THEN NoObservation
                                ELSE ToolErrorObservation]
        /\ IF propagate
           THEN agent' = agent /\ Raise(out.text)
           ELSE /\ agent' = [agent EXCEPT !.rounds = NextRound(@)]
                /\ UNCHANGED <<phase, exc, gstate, pending, writes, runs>>
    /\ UNCHANGED <<safetyVars, uiVars, routed, synth>>

CallListTables ==
    /\ AgentRunning
    /\ \E db \in DbBehaviours :
        ToolRound("sql_db_list_tables", <<>>, sql_db_list_tables(db))

CallSchema ==
    /\ AgentRunning
    /\ \E t \in AgentTables, db \in DbBehaviours :
        ToolRound("sql_db_schema", <<t>>, sql_db_schema(<<t>>, db))

CallQuery ==
    /\ AgentRunning
    /\ \E q \in AgentQueries, db \in DbBehaviours :
        ToolRound("sql_db_query", <<q>>, sql_db_query(q, db))

CallQueryChecker ==
    /\ AgentRunning
    /\ \E q \in AgentQueries, ok \in BOOLEAN :
        ToolRound("sql_db_query_checker", <<q>>, sql_db_query_checker(q, ok))

CallIsAggregateOnly ==
    /\ AgentRunning
    /\ \E q \in AgentQueries, ok \in BOOLEAN :
        ToolRound("sql_db_is_aggregate_only", <<q>>, sql_db_is_aggregate_only(q, ok))

CallIsReadonly ==
    /\ AgentRunning
    /\ \E q \in AgentQueries :
        ToolRound("sql_db_is_readonly", <<q>>,
                  Returned(IF is_readonly_sql(q) THEN "True" ELSE "False", <<>>))

CallColumnValueChecker ==
    /\ AgentRunning
    /\ \E t \in AgentTables, c \in AgentColumns, term \in AgentTerms, db \in DbBehaviours :
        ToolRound("sql_db_column_value_checker", <<t, c, term>>,
                  sql_db_column_value_checker(t, c, term, db))

\* the model answers without a tool call: sql_gen_node returns its content
AgentFinish ==
    /\ AgentRunning
    /\ \E content \in AgentTexts : Finish("sql_gen", sql_gen_node(content))
    /\ UNCHANGED <<safetyVars, uiVars, routed, agent, lastCall, synth>>

\* a call of the model inside the loop raises: sql_gen_node raises
AgentModelFails ==
    /\ AgentRunning
    /\ Raise("agent model call failed")
    /\ UNCHANGED <<safetyVars, uiVars, routed, agent, lastCall, synth>>

\* the model asks for a tool when the step limit is used up: agent_executor.invoke
\* raises GraphRecursionError, and so does sql_gen_node
AgentStepLimit ==
    /\ AgentRunning
    /\ StepLimitReached(agent.rounds)
    /\ Raise("GraphRecursionError")
    /\ UNCHANGED <<safetyVars, uiVars, routed, agent, lastCall, synth>>

\* a step of the agent loop
AgentStep ==
    \/ CallListTables
    \/ CallSchema
    \/ CallQuery
    \/ CallQueryChecker
    \/ CallIsAggregateOnly
    \/ CallIsReadonly
    \/ CallColumnValueChecker
    \/ AgentFinish
    \/ AgentModelFails
    \/ AgentStepLimit

(***************************************************************************)
(* Chat surface: the chat input handler of ui.py.                          *)
(***************************************************************************)
Say(role, content) == [role |-> role, content |-> content]

\* mutant: the graph is invoked on the state the previous invocation left, with
\* only the messages replaced
ChatInputKeepsState ==
    /\ phase = "idle"
    /\ turn < MaxTurns
    /\ turn' = turn + 1
    /\ session' = Append(session, Say("user", PromptOf(turn + 1)))
    /\ shown' = Append(shown, "Thinking...")
    /\ gstate' = [gstate EXCEPT !["messages"] = <<HumanMessage(PromptOf(turn + 1))>>]
    /\ phase' = "running"
    /\ exc' = "none"
    /\ pending' = {"router"}
    /\ writes' = {}
    /\ runs' = [n \in Nodes |-> IF n = "router" THEN 1 ELSE 0]
    /\ routed' = NoOutcome
    /\ agent' = IdleAgent
    /\ lastCall' = NoCall
    /\ synth' = <<>>
    /\ UNCHANGED safetyVars

\* a chat input arrives: the user message is kept, the graph is invoked on a
\* state built from the prompt alone
ChatInput ==
    /\ phase = "idle"
    /\ turn < MaxTurns
    /\ turn' = turn + 1
    /\ session' = Append(session, Say("user", PromptOf(turn + 1)))
    /\ shown' = Append(shown, "Thinking...")
    /\ gstate' = [messages |-> add_messages(<<>>, <<HumanMessage(PromptOf(turn + 1))>>)]
    /\ phase' = "running"
    /\ exc' = "none"
    /\ pending' = {"router"}
    /\ writes' = {}
    /\ runs' = [n \in Nodes |-> IF n = "router" THEN 1 ELSE 0]
    /\ routed' = NoOutcome
    /\ agent' = IdleAgent
    /\ lastCall' = NoCall
    /\ synth' = <<>>
    /\ UNCHANGED safetyVars

\* graph.invoke returned: the answer is shown and kept as the assistant message
ShowAnswer ==
    /\ phase = "done"
    /\ LET final_answer == Get(gstate, "final_answer", "No response generated.")
       IN  /\ shown' = [shown EXCEPT ![turn] = "answer"]
           /\ session' = Append(session, Say("assistant", final_answer))
    /\ phase' = "idle"
    /\ UNCHANGED <<safetyVars, turn, exc, gstate, pending, writes, runs, routed, agent,
                   lastCall, synth>>

\* mutant: the error is also kept as an assistant message
ShowErrorAppends ==
    /\ phase = "failed"
    /\ shown' = [shown EXCEPT ![turn] = "error"]
    /\ session' = Append(session, Say("assistant", <<"error", turn>>))
    /\ phase' = "idle"
    /\ UNCHANGED <<safetyVars, turn, exc, gstate, pending, writes, runs, routed,
                   agent, lastCall, synth>>

\* graph.invoke raised: the error is shown, nothing is added to the history
ShowError ==
    /\ phase = "failed"
    /\ shown' = [shown EXCEPT ![turn] = "error"]
    /\ phase' = "idle"
    /\ UNCHANGED <<safetyVars, session, turn, exc, gstate, pending, writes, runs, routed,
                   agent, lastCall, synth>>

Init ==
    /\ stmt = <<>>
    /\ verdict = Unchecked
    /\ AppInit

Next ==
    \/ ChatInput
    \/ RouterNode
    \/ RagNode
    \/ CallListTables
    \/ CallSchema
    \/ CallQuery
    \/ CallQueryChecker
    \/ CallIsAggregateOnly
    \/ CallIsReadonly
    \/ CallColumnValueChecker
    \/ AgentFinish
    \/ AgentModelFails
    \/ AgentStepLimit
    \/ ResponseNode
    \/ Superstep
    \/ ShowAnswer
    \/ ShowError

Spec == Init /\ [][Next]_vars

(***************************************************************************)
(* Properties of the application.                                          *)
(***************************************************************************)
\* a step in which the agent loop called a tool
ToolStep == agent' # agent \/ lastCall' # lastCall

\* C3: when sql_db_query is called with a statement for which is_readonly_sql is
\* false, nothing is submitted to the database, the tool returns the fixed refusal
\* message without raising, and the loop goes on with it as its observation.
C3_UnsafeQueryRefused ==
    [][ (ToolStep /\ lastCall'.tool = "sql_db_query"
            /\ ~is_readonly_sql(lastCall'.args[1]))
        => /\ lastCall'.submitted = <<>>
           /\ ~lastCall'.raised
           /\ lastCall'.text = Refusal
           /\ lastCall'.obs = Refusal
           /\ AgentRunning' ]_vars

\* C3 witness: a DROP statement was handed to sql_db_query and refused, and the
\* agent loop is still running.
C3_Witness ==
    /\ lastCall.tool = "sql_db_query"
    /\ ~is_readonly_sql(lastCall.args[1])
    /\ lastCall.obs = Refusal
    /\ lastCall.submitted = <<>>
    /\ AgentRunning

ValidIntents == { valid_intents[i] : i \in 1..Len(valid_intents) }

\* C4: when the classification call fails or returns an intent that is not one of
\* the four values after trim and uppercase, the Router's output is exactly intent
\* OFFTOPIC with empty filters.
C4_FallbackReplacesDecision ==
    (/\ routed.called
     /\ "intent" \in DOMAIN gstate
     /\ (~routed.ok \/ Upper(Strip(routed.intent)) \notin ValidIntents))
    => (gstate["intent"] = OFFTOPIC /\ gstate["filters"] = {})

\* C5: the Retrieval Strategy is started iff the intent is RAG or BOTH, the SQL
\* Strategy iff it is SQL or BOTH; before the Router's decision neither is started,
\* and for any other intent the Response Synthesizer is started right after the
\* Router with neither strategy started.
C5_DispatchFollowsIntent ==
    IF "intent" \in DOMAIN gstate
    THEN /\ (runs["rag"] > 0) <=> (gstate["intent"] \in {RAG, BOTH})
         /\ (runs["sql_gen"] > 0) <=> (gstate["intent"] \in {SQL, BOTH})
         /\ gstate["intent"] \notin {RAG, SQL, BOTH} => runs["response"] > 0
    ELSE runs["rag"] = 0 /\ runs["sql_gen"] = 0 /\ runs["response"] = 0

\* C5 witness: intent BOTH, both strategies have been started.
C5_Witness ==
    /\ "intent" \in DOMAIN gstate
    /\ gstate["intent"] = BOTH
    /\ runs["rag"] = 1
    /\ runs["sql_gen"] = 1
    /\ pending = {"rag", "sql_gen"}

\* C6: the Retrieval Strategy writes only rag_context and the SQL Strategy only
\* sql_result, no superstep fails on conflicting updates, and when a turn with
\* intent BOTH completes the state holds the retrieval output in rag_context and
\* the SQL output in sql_result.
C6_BothOutputsKept ==
    /\ \A w \in writes :
        /\ w[1] = "rag" => DOMAIN w[2] = {"rag_context"}
        /\ w[1] = "sql_gen" => DOMAIN w[2] = {"sql_result"}
    /\ exc # "InvalidUpdateError"
    /\ (phase = "done" /\ gstate["intent"] = BOTH)
        => /\ "rag_context" \in DOMAIN gstate
           /\ "sql_result" \in DOMAIN gstate
           /\ gstate["rag_context"] \in RagTexts
           /\ gstate["sql_result"] \in AgentTexts

\* C6 witness: a turn with intent BOTH completed after the agent loop had called a
\* tool, and both outputs are in the state.
C6_Witness ==
    /\ phase = "done"
    /\ gstate["intent"] = BOTH
    /\ lastCall.tool # "none"
    /\ gstate["rag_context"] \in RagTexts
    /\ gstate["sql_result"] \in AgentTexts

\* C7: once the Response Synthesizer is started, no strategy is still running and
\* every strategy that was started has its output in the state.
C7_SynthesisAfterJoin ==
    runs["response"] > 0
    => /\ pending \subseteq {"response"}
       /\ runs["rag"] > 0 => "rag_context" \in DOMAIN gstate
       /\ runs["sql_gen"] > 0 => "sql_result" \in DOMAIN gstate

\* C7 witness: for intent BOTH the Response Synthesizer is about to run with both
\* outputs in the state.
C7_Witness ==
    /\ pending = {"response"}
    /\ gstate["intent"] = BOTH
    /\ "rag_context" \in DOMAIN gstate
    /\ "sql_result" \in DOMAIN gstate

\* C8: when a turn completes the Response Synthesizer has run exactly once, the
\* workflow has ended, final_answer is set, and messages is the turn's earlier
\* message followed by exactly one assistant turn carrying final_answer.
C8_OneAnswerPerTurn ==
    phase = "done"
    => /\ runs["response"] = 1
       /\ pending = {}
       /\ "final_answer" \in DOMAIN gstate
       /\ gstate["messages"] =
            <<HumanMessage(PromptOf(turn)), AIMessage(gstate["final_answer"])>>

\* C8 witness: a turn with intent BOTH, where two branches lead into the Response
\* Synthesizer, completed.
C8_Witness ==
    /\ phase = "done"
    /\ gstate["intent"] = BOTH
    /\ runs["response"] = 1

\* C9: a failure that leaves the graph is shown as an error, and for every turn
\* that ended in an error the history holds the turn's user message with no
\* assistant message after it.
C9_FailedTurnKeepsHistory ==
    /\ (phase = "idle" /\ exc # "none") => shown[turn] = "error"
    /\ \A t \in 1..Len(shown) :
        shown[t] = "error"
        => \E i \in 1..Len(session) :
            /\ session[i] = Say("user", PromptOf(t))
            /\ (i = Len(session) \/ session[i + 1].role = "user")

\* C9 witness: after an answered first turn, the synthesis call of the second turn
\* failed and the error is shown; the history ends with the second user message.
C9_Witness ==
    /\ phase = "idle"
    /\ exc = "synthesis call failed"
    /\ shown = <<"answer", "error">>
    /\ Len(session) = 3
    /\ session[3] = Say("user", PromptOf(2))

DatabaseTools == {"sql_db_schema", "sql_db_query", "sql_db_column_value_checker"}

\* C10: the schema, execute and column_value_checker tools never raise, whichever
\* database step fails.
C10_DatabaseToolsNeverRaise ==
    lastCall.tool \in DatabaseTools => ~lastCall.raised

SameIntent(raw, v) == Lower(Strip(raw)) = Lower(v)

\* C12: once the Router's update is in the state, intent is one of the four values,
\* and it is the value the returned intent matches up to letter case and
\* surrounding whitespace; no other node returns an update of intent or filters,
\* and within an invocation intent and filters keep the values the Router gave.
C12_IntentSetOnceByRouter ==
    /\ []("intent" \in DOMAIN gstate
            => /\ gstate["intent"] \in ValidIntents
               /\ "filters" \in DOMAIN gstate
               /\ routed.called
               /\ \A v \in ValidIntents :
                    (routed.ok /\ SameIntent(routed.intent, v)) => gstate["intent"] = v)
    /\ [](\A w \in writes :
            w[1] # "router" => DOMAIN w[2] \cap {"intent", "filters"} = {})
    /\ [][ ("intent" \in DOMAIN gstate /\ turn' = turn)
            => /\ "intent" \in DOMAIN gstate'
               /\ gstate'["intent"] = gstate["intent"]
               /\ gstate'["filters"] = gstate["filters"] ]_vars

\* C12 witness: the model returned " sql ", the turn ran the SQL Strategy and
\* completed with intent SQL.
C12_Witness ==
    /\ phase = "done"
    /\ routed.ok
    /\ routed.intent = <<" ", "s", "q", "l", " ">>
    /\ gstate["intent"] = SQL
    /\ runs["sql_gen"] = 1

\* every single quote of s is followed by a second one that belongs to it
RECURSIVE QuotesPaired(_)
QuotesPaired(s) ==
    IF s = <<>> THEN TRUE
    ELSE IF Head(s) = "'"
         THEN Len(s) >= 2 /\ s[2] = "'" /\ QuotesPaired(SubSeq(s, 3, Len(s)))
         ELSE QuotesPaired(Tail(s))

\* s with every pair of quotes read as one quote
RECURSIVE Unescaped(_)
Unescaped(s) ==
    IF s = <<>> THEN <<>>
    ELSE IF Head(s) = "'" /\ Len(s) >= 2 /\ s[2] = "'"
         THEN <<"'">> \o Unescaped(SubSeq(s, 3, Len(s)))
         ELSE <<Head(s)>> \o Unescaped(Tail(s))

\* the text between LIKE '% and %' in a query the tool built for table and column
LikeBody(q, table, column) ==
    SubSeq(q, Len(ValueQuery(table, column, <<>>)) - 1, Len(q) - 2)

\* C13: sql_db_column_value_checker submits nothing for a table that is not in the
\* live table list and, unless a database step raised, returns the textual error;
\* in every query it submits the table is a live one and each single quote of the
\* search term stands doubled inside the LIKE literal.
C13_TableCheckedTermEscaped ==
    lastCall.tool = "sql_db_column_value_checker"
    => LET table == lastCall.args[1]
           column == lastCall.args[2]
           term == lastCall.args[3]
       IN  /\ table \notin {T_sales, T_users}
                => /\ lastCall.submitted = <<>>
                   /\ ~lastCall.raised => lastCall.text = "Error: Table does not exist."
           /\ lastCall.submitted # <<>>
                => /\ table \in {T_sales, T_users}
                   /\ Len(lastCall.submitted) = 1
                   /\ QuotesPaired(LikeBody(lastCall.submitted[1], table, column))
                   /\ Unescaped(LikeBody(lastCall.submitted[1], table, column)) = term

\* C13 witness: a search term with a single quote was looked up in a live table and
\* the query was submitted.
C13_Witness ==
    /\ lastCall.tool = "sql_db_column_value_checker"
    /\ lastCall.args[1] = T_sales
    /\ lastCall.args[3] = <<"o", "'", "k">>
    /\ lastCall.submitted # <<>>

\* the places of the text header in the input of the synthesis call
SectionAt(header) == { i \in 1..Len(synth) : synth[i] = header }

\* the key is in the state with a non-empty value
NonEmpty(key) == key \in DOMAIN gstate /\ gstate[key] # ""

EmptyContextInput == <<"Context:\n", "\n\nQuestion: ", PromptOf(turn)>>

\* C14: the input of the synthesis call has a document section iff rag_context is
\* present and non-empty and a database section iff sql_result is present and
\* non-empty, each carrying the value of its key, the document section first; with
\* neither, the input is the empty context followed by the question, and the
\* Response Synthesizer can make its call and return an answer.
C14_ContextSections ==
    /\ synth # <<>>
        => /\ (SectionAt("Document Context:\n") # {}) <=> NonEmpty("rag_context")
           /\ (SectionAt("Database Result:\n") # {}) <=> NonEmpty("sql_result")
           /\ \A i \in SectionAt("Document Context:\n") :
                i = 2 /\ synth[i + 1] = gstate["rag_context"]
           /\ \A i \in SectionAt("Database Result:\n") :
                /\ synth[i + 1] = gstate["sql_result"]
                /\ i = IF NonEmpty("rag_context") THEN 5 ELSE 2
           /\ (~NonEmpty("rag_context") /\ ~NonEmpty("sql_result"))
                => synth = EmptyContextInput
           /\ synth[Len(synth)] = PromptOf(turn)
    /\ (phase = "running" /\ "response" \in pending
            /\ ~NonEmpty("rag_context") /\ ~NonEmpty("sql_result"))
        => ENABLED (/\ ResponseNode
                    /\ synth' = <<"Context:\n", "\n\nQuestion: ", PromptOf(turn)>>
                    /\ phase' = "running"
                    /\ \E w \in writes' :
                        w[1] = "response" /\ w[2]["final_answer"] = AnswerOf(turn))

\* C14 witness: the SQL Strategy ran and returned an empty text, the synthesis call
\* was made with the empty context and the turn completed with an answer.
C14_Witness ==
    /\ phase = "done"
    /\ gstate["intent"] = SQL
    /\ "sql_result" \in DOMAIN gstate
    /\ gstate["sql_result"] = ""
    /\ synth = EmptyContextInput
    /\ gstate["final_answer"] = AnswerOf(turn)

\* C15: every invocation of the graph starts from a state that holds the turn's
\* user message and nothing else, and at every moment of turn n each of intent,
\* filters, rag_context, sql_result and final_answer that is in the state was
\* written by the node of turn n that produces it: intent and filters are the
\* Router's output for this turn's classification, rag_context and sql_result are
\* present only if their strategy was started in this turn, and final_answer is
\* this turn's answer.
C15_NoLeakAcrossTurns ==
    /\ [][ turn' # turn
            => gstate' = [messages |-> <<HumanMessage(PromptOf(turn'))>>] ]_vars
    /\ [](turn > 0 => gstate["messages"][1] = HumanMessage(PromptOf(turn)))
    /\ []("intent" \in DOMAIN gstate
            => /\ routed.called
               /\ gstate["intent"] = router_node(routed).intent)
    /\ []("filters" \in DOMAIN gstate
            => /\ routed.called
               /\ gstate["filters"] = router_node(routed).filters)
    /\ []("rag_context" \in DOMAIN gstate => runs["rag"] = 1)
    /\ []("sql_result" \in DOMAIN gstate => runs["sql_gen"] = 1)
    /\ []("final_answer" \in DOMAIN gstate
            => runs["response"] = 1 /\ gstate["final_answer"] = AnswerOf(turn))

\* C15 witness: the first turn was answered, and the second turn, classified as
\* off topic, completed on a state without outputs of any strategy.
C15_Witness ==
    /\ turn = 2
    /\ phase = "done"
    /\ session[2] = Say("assistant", AnswerOf(1))
    /\ gstate["intent"] = OFFTOPIC
    /\ DOMAIN gstate = {"messages", "intent", "filters", "final_answer"}
    /\ gstate["final_answer"] = AnswerOf(2)

\* C16: every SQL text a tool of the SQL Strategy submits to the database is one
\* for which is_readonly_sql is true, whatever arguments the agent supplies.
C16_EverySubmissionReadOnly ==
    \A i \in 1..Len(lastCall.submitted) : is_readonly_sql(lastCall.submitted[i])

====
